---------------------------- MODULE Spec2Model ----------------------------
(***************************************************************************)
(* Model of main.cu: two spheres approach each other, mesh, and exchange   *)
(* angular velocity through the CUDA kernel enforce_mesh; the host copies  *)
(* the angular velocities back every frame and integrates the two          *)
(* orientation quaternions.                                                *)
(*                                                                         *)
(* Every `float` of the source is an IEEE-754 binary32 value.  A finite    *)
(* value is the pair <<m, e>> standing for m * 2^e, with |m| < 2^24 and    *)
(* -149 <= e <= 104, kept canonical: |m| >= 2^23 unless e = -149           *)
(* (subnormals and zero).  NaN and the infinities carry the exponent tag   *)
(* ESpecial.  Every operation rounds to nearest, ties to even, as the      *)
(* hardware does.  The sign of zero is not kept: it can be observed only   *)
(* by dividing by zero, and the program's only divisor is a square root.   *)
(* Each source-level operation rounds on its own (no fused multiply-add).  *)
(***************************************************************************)
EXTENDS Integers, Sequences, FiniteSets, TLC

(***************************************************************************)
(* binary32 arithmetic                                                     *)
(***************************************************************************)

\* 2^0 .. 2^30
P2 ==
  <<1, 2, 4, 8, 16, 32, 64, 128, 256, 512, 1024, 2048, 4096, 8192, 16384,
    32768, 65536, 131072, 262144, 524288, 1048576, 2097152, 4194304,
    8388608, 16777216, 33554432, 67108864, 134217728, 268435456,
    536870912, 1073741824>>

Pow2(k) == P2[k + 1]

\* width of the significand, hidden bit included
MantBits == 24
\* exponent of the least subnormal, 2^-149
EMin == -149
\* exponent of the last bit of the largest finite value, (2^24 - 1) * 2^104
EMax == 104
\* exponent tag of NaN and the infinities
ESpecial == 200

NaN == <<0, ESpecial>>
PInf == <<1, ESpecial>>
NInf == <<-1, ESpecial>>
Zero == <<0, EMin>>

IsNaN(x) == x[2] = ESpecial /\ x[1] = 0
IsInf(x) == x[2] = ESpecial /\ x[1] # 0
IsFinite(x) == x[2] # ESpecial
IsZero(x) == x[2] # ESpecial /\ x[1] = 0

Abs(n) == IF n < 0 THEN -n ELSE n
Sgn(n) == IF n < 0 THEN -1 ELSE IF n > 0 THEN 1 ELSE 0
Max(i, j) == IF i >= j THEN i ELSE j
Min(i, j) == IF i <= j THEN i ELSE j

\* the number of bits of b, 0 < b < 2^8
BitLen8(b) ==
  IF b >= 16
    THEN (IF b >= 64 THEN (IF b >= 128 THEN 8 ELSE 7) ELSE (IF b >= 32 THEN 6 ELSE 5))
    ELSE (IF b >= 4 THEN (IF b >= 8 THEN 4 ELSE 3) ELSE (IF b >= 2 THEN 2 ELSE 1))

\* the number of bits of M, 0 < M < 2^30
BitLen(M) ==
  IF M >= 16777216 THEN 24 + BitLen8(M \div 16777216)
  ELSE IF M >= 65536 THEN 16 + BitLen8(M \div 65536)
  ELSE IF M >= 256 THEN 8 + BitLen8(M \div 256)
  ELSE BitLen8(M)

Signed(s, m, e) == IF e > EMax THEN <<s, ESpecial>> ELSE <<s * m, e>>

\* The binary32 nearest to s * (M + f) * 2^E, where 0 <= M < 2^30 and f is a
\* fraction in [0, 1) that is nonzero iff sticky; ties go to the even
\* significand.  A caller passing sticky gives M at least 25 bits.
Round(s, M, E, sticky) ==
  IF M = 0 THEN Zero
  ELSE
    LET n == BitLen(M)
        k == Max(n - MantBits, EMin - E)
    IN  IF k <= 0 THEN Signed(s, M * Pow2(-k), E + k)
        ELSE IF k > n THEN Zero
        ELSE
          LET q == M \div Pow2(k)
              r == M % Pow2(k)
              half == Pow2(k - 1)
              up == r > half \/ (r = half /\ (sticky \/ q % 2 = 1))
              m == IF up THEN q + 1 ELSE q
          IN  IF m = Pow2(MantBits)
                THEN Signed(s, Pow2(MantBits - 1), E + k + 1)
                ELSE Signed(s, m, E + k)

\* a nonzero finite value with its significand brought to 24 bits (a
\* subnormal gets an exponent below EMin)
Norm(x) ==
  IF Abs(x[1]) >= Pow2(MantBits - 1) THEN x
  ELSE LET j == MantBits - BitLen(Abs(x[1]))
       IN  <<x[1] * Pow2(j), x[2] - j>>

FNeg(x) == <<-x[1], x[2]>>

FAbs(x) == <<Abs(x[1]), x[2]>>

\* x < y, false when either is NaN
FLt(x, y) ==
  IF IsNaN(x) \/ IsNaN(y) THEN FALSE
  ELSE IF IsInf(x) \/ IsInf(y)
    THEN (IF IsInf(x) THEN 2 * x[1] ELSE Sgn(x[1]))
           < (IF IsInf(y) THEN 2 * y[1] ELSE Sgn(y[1]))
  ELSE IF Sgn(x[1]) # Sgn(y[1]) THEN Sgn(x[1]) < Sgn(y[1])
  ELSE IF x[2] # y[2] THEN (IF x[1] > 0 THEN x[2] < y[2] ELSE x[2] > y[2])
  ELSE x[1] < y[1]

FLe(x, y) == FLt(x, y) \/ (~IsNaN(x) /\ x = y)

\* The sum of two finite values, the first with the larger exponent.  Up to
\* 5 bits apart the sum is exact in 30 bits; further apart the smaller one is
\* cut to the bits above 2^(x[2] - 5), the rest becoming the sticky bit.
AddOrdered(x, y) ==
  LET d == x[2] - y[2]
      k == d - 5
      lo == IF k <= 0 THEN y[1]
            ELSE IF k >= 25 THEN (IF y[1] < 0 THEN -1 ELSE 0)
            ELSE y[1] \div Pow2(k)
      st == IF k <= 0 THEN FALSE
            ELSE IF k >= 25 THEN y[1] # 0
            ELSE y[1] % Pow2(k) # 0
      t == IF k <= 0 THEN x[1] * Pow2(d) + lo ELSE x[1] * 32 + lo
      E == IF k <= 0 THEN y[2] ELSE x[2] - 5
  IN  Round(IF t >= 0 THEN 1 ELSE -1,
            IF t >= 0 THEN t ELSE IF st THEN -t - 1 ELSE -t, E, st)

FAdd(x, y) ==
  IF IsNaN(x) \/ IsNaN(y) THEN NaN
  ELSE IF IsInf(x) THEN (IF IsInf(y) /\ y[1] # x[1] THEN NaN ELSE x)
  ELSE IF IsInf(y) THEN y
  ELSE IF y[1] = 0 THEN x
  ELSE IF x[1] = 0 THEN y
  ELSE IF x[2] >= y[2] THEN AddOrdered(x, y)
  ELSE AddOrdered(y, x)

FSub(x, y) == FAdd(x, FNeg(y))

\* the product of two nonzero finite values: the 48-bit product of the
\* 24-bit significands, taken in 12-bit halves
MulFinite(x, y) ==
  LET a == Norm(x)
      b == Norm(y)
      ah == Abs(a[1]) \div 4096
      al == Abs(a[1]) % 4096
      bh == Abs(b[1]) \div 4096
      bl == Abs(b[1]) % 4096
      mid == ah * bl + al * bh
      t == al * bl + (mid % 4096) * 4096
      L == t % 16777216
      H == ah * bh + mid \div 4096 + t \div 16777216
  IN  Round(Sgn(x[1]) * Sgn(y[1]), H * 64 + L \div 262144,
            a[2] + b[2] + 18, L % 262144 # 0)

FMul(x, y) ==
  IF IsNaN(x) \/ IsNaN(y) THEN NaN
  ELSE IF IsInf(x) \/ IsInf(y)
    THEN (IF IsZero(x) \/ IsZero(y) THEN NaN
          ELSE <<Sgn(x[1]) * Sgn(y[1]), ESpecial>>)
  ELSE IF IsZero(x) \/ IsZero(y) THEN Zero
  ELSE MulFinite(x, y)

\* the quotient of two nonzero finite values: 28 quotient bits below the
\* leading one, seven at a time, and the remainder as the sticky bit
DivFinite(x, y) ==
  LET a == Norm(x)
      b == Norm(y)
      p == Abs(a[1])
      d == Abs(b[1])
      q0 == p \div d
      r0 == p % d
      q1 == (r0 * 128) \div d
      r1 == (r0 * 128) % d
      q2 == (r1 * 128) \div d
      r2 == (r1 * 128) % d
      q3 == (r2 * 128) \div d
      r3 == (r2 * 128) % d
      q4 == (r3 * 128) \div d
      r4 == (r3 * 128) % d
  IN  Round(Sgn(x[1]) * Sgn(y[1]),
            q0 * 268435456 + q1 * 2097152 + q2 * 16384 + q3 * 128 + q4,
            a[2] - b[2] - 28, r4 # 0)

FDiv(x, y) ==
  IF IsNaN(x) \/ IsNaN(y) THEN NaN
  ELSE IF IsInf(x)
    THEN (IF IsInf(y) THEN NaN
          ELSE <<x[1] * (IF y[1] < 0 THEN -1 ELSE 1), ESpecial>>)
  ELSE IF IsInf(y) THEN Zero
  ELSE IF IsZero(y) THEN (IF IsZero(x) THEN NaN ELSE <<Sgn(x[1]), ESpecial>>)
  ELSE IF IsZero(x) THEN Zero
  ELSE DivFinite(x, y)

\* Digit-by-digit square root of a 26-bit radicand, one result bit a
\* step.  The state is <<root, remainder, radicand bits not yet used>>; step
\* k of the first 13 brings down the radicand's k-th base-4 digit, the later
\* ones bring down zeros.
SqrtStep(st, k) ==
  LET w == IF k < 13 THEN Pow2(2 * (13 - k)) ELSE 1
      r == st[2] * 4 + (IF k <= 13 THEN st[3] \div w ELSE 0)
      trial == st[1] * 4 + 1
  IN  IF r >= trial
        THEN <<st[1] * 2 + 1, r - trial, IF k <= 13 THEN st[3] % w ELSE 0>>
        ELSE <<st[1] * 2, r, IF k <= 13 THEN st[3] % w ELSE 0>>

\* steps lo .. hi
RECURSIVE SqrtSteps(_, _, _)
SqrtSteps(st, lo, hi) ==
  IF lo = hi THEN SqrtStep(st, lo)
  ELSE LET half == SqrtSteps(st, lo, (lo + hi) \div 2)
       IN  IF half[1] < 0 THEN half   \* never: a root is not negative
           ELSE SqrtSteps(half, (lo + hi) \div 2 + 1, hi)

\* the square root of a positive finite value: 26 result bits and a sticky
\* remainder
SqrtFinite(x) ==
  LET a == Norm(x)
      odd == a[2] % 2 = 1
      rr == SqrtSteps(<<0, 0, IF odd THEN a[1] * 2 ELSE a[1]>>, 1, 26)
  IN  Round(1, rr[1], ((IF odd THEN a[2] - 1 ELSE a[2]) - 26) \div 2, rr[2] # 0)

FSqrt(x) ==
  IF IsNaN(x) THEN NaN
  ELSE IF x[1] < 0 THEN NaN
  ELSE IF IsInf(x) THEN PInf
  ELSE IF IsZero(x) THEN Zero
  ELSE SqrtFinite(x)

\* fmaxf / fminf: a NaN operand is treated as missing data
fmaxf(x, y) ==
  IF IsNaN(x) THEN y
  ELSE IF IsNaN(y) THEN x
  ELSE IF FLt(x, y) THEN y ELSE x

fminf(x, y) ==
  IF IsNaN(x) THEN y
  ELSE IF IsNaN(y) THEN x
  ELSE IF FLt(y, x) THEN y ELSE x


\* an int converted to float (exact for the small literals of the source)
Flt(i) == Round(Sgn(i), Abs(i), 0, FALSE)

\* the float literal i/d written in decimal in the source, e.g. 0.01f as
\* Dec(1, 100): the binary32 nearest to the decimal value
Dec(i, d) == FDiv(Flt(i), Flt(d))

(***************************************************************************)
(* Straight-line float code.  A function body is the sequence of its       *)
(* assignments, each <<target, operation, operand, operand>> over named    *)
(* memory cells (the fields behind the pointers, the locals and the        *)
(* temporaries of the expressions), executed in program order, every       *)
(* operation rounding its result to binary32.                              *)
(***************************************************************************)

ALU(op, x, y) ==
  CASE op = "add" -> FAdd(x, y)
    [] op = "sub" -> FSub(x, y)
    [] op = "mul" -> FMul(x, y)
    [] op = "div" -> FDiv(x, y)
    [] op = "sqrt" -> FSqrt(x)
    [] op = "neg" -> FNeg(x)
    [] op = "fmaxf" -> fmaxf(x, y)
    [] op = "fminf" -> fminf(x, y)

\* one assignment; "lit" stores the literal it carries
Assign(ins, mem) ==
  (ins[1] :> (IF ins[2] = "lit" THEN ins[3]
              ELSE ALU(ins[2], mem[ins[3]], mem[ins[4]]))) @@ mem

\* the assignments code[lo], ..., code[hi] in order: the first half, then the
\* second half on the memory the first has left (the test on the domain has
\* the first half finished before the second starts)
RECURSIVE Run(_, _, _, _)
Run(code, lo, hi, mem) ==
  IF lo = hi THEN Assign(code[lo], mem)
  ELSE LET half == Run(code, lo, (lo + hi) \div 2, mem)
       IN  IF DOMAIN half = {} THEN half
           ELSE Run(code, (lo + hi) \div 2 + 1, hi, half)

\* the whole of code, run on memory mem: the memory afterwards
Exec(code, mem) == Run(code, 1, Len(code), mem)

Lit(dst, v) == <<dst, "lit", v, v>>

\* the cell of a scalar local, parameter or temporary
Var(v) == <<v, "">>

(***************************************************************************)
(* The CUDA kernel                                                         *)
(***************************************************************************)

\* the fields of a float3 called v
F3(v) == [x |-> <<v, "x">>, y |-> <<v, "y">>, z |-> <<v, "z">>]

\* v = make_float3(x, y, z) with int arguments
make_float3(v, x, y, z) ==
  <<Lit(F3(v).x, Flt(x)), Lit(F3(v).y, Flt(y)), Lit(F3(v).z, Flt(z))>>

\* r = crossf(a, b)
crossf(r, a, b) ==
  << <<Var("t1"), "mul", a.y, b.z>>, <<Var("t2"), "mul", a.z, b.y>>, <<r.x, "sub", Var("t1"), Var("t2")>>,
     <<Var("t1"), "mul", a.z, b.x>>, <<Var("t2"), "mul", a.x, b.z>>, <<r.y, "sub", Var("t1"), Var("t2")>>,
     <<Var("t1"), "mul", a.x, b.y>>, <<Var("t2"), "mul", a.y, b.x>>, <<r.z, "sub", Var("t1"), Var("t2")>> >>

\* lines 30-32
KernelLocals ==
  <<Lit(Var("softness"), Dec(5, 100)), Lit(Var("damping"), Dec(995, 1000)),
    Lit(Var("maxW"), Flt(5))>>

\* lines 34-41: v1, v2 and vrel, from a->omega and b->omega as they are when
\* these lines run
RelVelCode ==
  make_float3("n1", 1, 0, 0) \o crossf(F3("v1"), F3("a"), F3("n1"))
  \o make_float3("n2", -1, 0, 0) \o crossf(F3("v2"), F3("b"), F3("n2"))
  \o << <<F3("vrel").x, "sub", F3("v1").x, F3("v2").x>>,
        <<F3("vrel").y, "sub", F3("v1").y, F3("v2").y>>,
        <<F3("vrel").z, "sub", F3("v1").z, F3("v2").z>> >>

\* w op= v * softness
Correct(w, op, v) == << <<Var("t1"), "mul", v, Var("softness")>>, <<w, op, w, Var("t1")>> >>

\* the correction reaching into the x components as well
CorrectionCodeX ==
  Correct(F3("a").x, "sub", F3("vrel").y) \o Correct(F3("a").y, "sub", F3("vrel").y)
  \o Correct(F3("a").z, "sub", F3("vrel").z)
  \o Correct(F3("b").x, "add", F3("vrel").y) \o Correct(F3("b").y, "add", F3("vrel").y)
  \o Correct(F3("b").z, "add", F3("vrel").z)

\* lines 43-46
CorrectionCode ==
  Correct(F3("a").y, "sub", F3("vrel").y) \o Correct(F3("a").z, "sub", F3("vrel").z)
  \o Correct(F3("b").y, "add", F3("vrel").y) \o Correct(F3("b").z, "add", F3("vrel").z)

\* w *= damping
Damp(w) == << <<w, "mul", w, Var("damping")>> >>

\* lines 48-53
DampingCode ==
  Damp(F3("a").x) \o Damp(F3("a").y) \o Damp(F3("a").z)
  \o Damp(F3("b").x) \o Damp(F3("b").y) \o Damp(F3("b").z)

\* w = fminf(fmaxf(w, -maxW), maxW)
ClampOff(w) == <<>>
Clamp(w) ==
  << <<Var("t1"), "neg", Var("maxW"), Var("maxW")>>, <<Var("t2"), "fmaxf", w, Var("t1")>>,
     <<w, "fminf", Var("t2"), Var("maxW")>> >>

\* lines 55-60
ClampCode ==
  Clamp(F3("a").x) \o Clamp(F3("a").y) \o Clamp(F3("a").z)
  \o Clamp(F3("b").x) \o Clamp(F3("b").y) \o Clamp(F3("b").z)

\* the body of enforce_mesh with the relative velocity read again from the
\* records before every use instead of once into the local vrel
KernelCodeReread ==
  KernelLocals
  \o RelVelCode \o Correct(F3("a").y, "sub", F3("vrel").y)
  \o RelVelCode \o Correct(F3("a").z, "sub", F3("vrel").z)
  \o RelVelCode \o Correct(F3("b").y, "add", F3("vrel").y)
  \o RelVelCode \o Correct(F3("b").z, "add", F3("vrel").z)
  \o DampingCode \o ClampCode

\* the body of enforce_mesh, lines 30-60
KernelCode ==
  KernelLocals \o RelVelCode \o CorrectionCode \o DampingCode \o ClampCode

SphereGPU(x, y, z) == [omega |-> [x |-> x, y |-> y, z |-> z]]

\* the memory the kernel's one thread sees: *a and *b
KernelMem(a, b) ==
  (F3("a").x :> a.omega.x) @@ (F3("a").y :> a.omega.y) @@ (F3("a").z :> a.omega.z)
  @@ (F3("b").x :> b.omega.x) @@ (F3("b").y :> b.omega.y) @@ (F3("b").z :> b.omega.z)

\* the record behind pointer p when the kernel is done
Record(mem, p) == SphereGPU(mem[F3(p).x], mem[F3(p).y], mem[F3(p).z])

\* enforce_mesh<<<1,1>>>(a, b): the records *a and *b afterwards
enforce_mesh(a, b) ==
  LET mem == Exec(KernelCode, KernelMem(a, b))
  IN  <<Record(mem, "a"), Record(mem, "b")>>

(***************************************************************************)
(* Quaternions                                                             *)
(***************************************************************************)

Quat(w, x, y, z) == [w |-> w, x |-> x, y |-> y, z |-> z]

\* the fields of a Quat called v
Q4(v) == [w |-> <<v, "w">>, x |-> <<v, "x">>, y |-> <<v, "y">>, z |-> <<v, "z">>]

\* one component of the Hamilton product: r = ((p1 op2 p2) op3 p3) op4 p4,
\* each p a product of two fields
Row(r, p1, op2, p2, op3, p3, op4, p4) ==
  << <<Var("t1"), "mul", p1[1], p1[2]>>, <<Var("t2"), "mul", p2[1], p2[2]>>,
     <<Var("t1"), op2, Var("t1"), Var("t2")>>,
     <<Var("t2"), "mul", p3[1], p3[2]>>, <<Var("t1"), op3, Var("t1"), Var("t2")>>,
     <<Var("t2"), "mul", p4[1], p4[2]>>, <<r, op4, Var("t1"), Var("t2")>> >>

\* r = quat_mul(a, b)
quat_mul(r, a, b) ==
  Row(r.w, <<a.w, b.w>>, "sub", <<a.x, b.x>>, "sub", <<a.y, b.y>>, "sub", <<a.z, b.z>>)
  \o Row(r.x, <<a.w, b.x>>, "add", <<a.x, b.w>>, "add", <<a.y, b.z>>, "sub", <<a.z, b.y>>)
  \o Row(r.y, <<a.w, b.y>>, "sub", <<a.x, b.z>>, "add", <<a.y, b.w>>, "add", <<a.z, b.x>>)
  \o Row(r.z, <<a.w, b.z>>, "add", <<a.x, b.y>>, "sub", <<a.y, b.x>>, "add", <<a.z, b.w>>)

\* r = quat_norm(q), with its local n
quat_norm(r, q) ==
  << <<Var("t1"), "mul", q.w, q.w>>, <<Var("t2"), "mul", q.x, q.x>>, <<Var("t1"), "add", Var("t1"), Var("t2")>>,
     <<Var("t2"), "mul", q.y, q.y>>, <<Var("t1"), "add", Var("t1"), Var("t2")>>,
     <<Var("t2"), "mul", q.z, q.z>>, <<Var("t1"), "add", Var("t1"), Var("t2")>>,
     <<Var("n"), "sqrt", Var("t1"), Var("t1")>>,
     <<r.w, "div", q.w, Var("n")>>, <<r.x, "div", q.x, Var("n")>>,
     <<r.y, "div", q.y, Var("n")>>, <<r.z, "div", q.z, Var("n")>> >>

\* the body of integrate_quat(q, w, dt); "arg" is the product handed to
\* quat_norm
IntegrateCode ==
  << Lit(Q4("dq").w, Flt(0)),
     <<Q4("dq").x, "mul", F3("w").x, Var("dt")>>,
     <<Q4("dq").y, "mul", F3("w").y, Var("dt")>>,
     <<Q4("dq").z, "mul", F3("w").z, Var("dt")>> >>
  \o quat_mul(Q4("arg"), Q4("q"), Q4("dq"))
  \o quat_norm(Q4("q"), Q4("arg"))

IntegrateMem(q, w, dt) ==
  (Q4("q").w :> q.w) @@ (Q4("q").x :> q.x) @@ (Q4("q").y :> q.y) @@ (Q4("q").z :> q.z)
  @@ (F3("w").x :> w.x) @@ (F3("w").y :> w.y) @@ (F3("w").z :> w.z) @@ (Var("dt") :> dt)

\* integrate_quat(q, w, dt): the memory when it returns
integrate_quat(q, w, dt) == Exec(IntegrateCode, IntegrateMem(q, w, dt))

\* the Quat called v in that memory
QuatOf(mem, v) == Quat(mem[Q4(v).w], mem[Q4(v).x], mem[Q4(v).y], mem[Q4(v).z])


(***************************************************************************)
(* main(): set-up (lines 170-179) and the render loop (lines 183-240)      *)
(***************************************************************************)

\* frames of the render loop explored
MaxFrames == 104
\* frames explored in the long run that follows the damping down
MaxLongFrames == 10830
\* frames explored after a CUDA call has failed
MaxFaultFrames == 2
\* applications of the kernel to each pair of records taken in isolation
MaxIter == 2

\* -1.01f, line 188
ContactThreshold == Dec(-101, 100)
\* 0.01f, line 188
ApproachStep == Dec(1, 100)
\* 0.01f, lines 194-195
TimeStep == Dec(1, 100)

\* the test of line 188 with != for <, and with no approach at all
ApproachingNe(x) == x # ContactThreshold
ApproachingNever(x) == FALSE
\* x1 < -1.01f
Approaching(x) == FLt(x, ContactThreshold)

\* x1 += 0.01f done twice
StepLeftTwice(x) == FAdd(FAdd(x, ApproachStep), ApproachStep)
\* x1 += 0.01f
StepLeft(x) == FAdd(x, ApproachStep)
\* x2 -= 0.01f
StepRight(x) == FSub(x, ApproachStep)

\* lines 173-174
InitH1 == SphereGPU(Dec(4, 10), Dec(9, 10), Dec(2, 10))
InitH2 == SphereGPU(Dec(-3, 10), Dec(2, 10), Dec(8, 10))

VARIABLES
  pc,        \* where the host thread is
  frame,     \* iterations of the while loop begun
  x1, x2,    \* positions of the two spheres
  q1, q2,    \* their orientations
  h1, h2,    \* host copies of the angular velocities
  d1, d2,    \* device memory behind d1 and d2: <<>> until allocated, then
             \* <<record>>
  pending,   \* a launched kernel has not run yet
  fault,     \* the CUDA runtime's error state: "none", or where the first
             \* failing call was ("startup", "frame"); a call that fails with
             \* valid arguments means the device is lost, and every later
             \* call fails as well
  phase,     \* the outcome of the test of line 188 in this frame
  launches,  \* kernel launches issued in this frame
  zeroNorm,  \* some quat_norm call has computed n = 0
  faultAge   \* frames begun since the first failing call

vars ==
  <<pc, frame, x1, x2, q1, q2, h1, h2, d1, d2, pending, fault, phase,
    launches, zeroNorm, faultAge>>

\* lines 170-174
Init ==
  /\ pc = "start"
  /\ frame = 0
  /\ x1 = Flt(-2)
  /\ x2 = Flt(2)
  /\ q1 = Quat(Flt(1), Flt(0), Flt(0), Flt(0))
  /\ q2 = Quat(Flt(1), Flt(0), Flt(0), Flt(0))
  /\ h1 = InitH1
  /\ h2 = InitH2
  /\ d1 = <<>>
  /\ d2 = <<>>
  /\ pending = FALSE
  /\ fault = "none"
  /\ phase = "none"
  /\ launches = 0
  /\ zeroNorm = FALSE
  /\ faultAge = 0

\* what a CUDA call can return: cudaSuccess (TRUE) or an error (FALSE); no
\* return value is ever looked at
Outcomes(faulty) == IF faulty THEN {TRUE, FALSE} ELSE {TRUE}

\* the error state after a call that returned ok at place
Raise(ok, place) == IF fault = "none" /\ ~ok THEN place ELSE fault

\* lines 175-179: two cudaMalloc and two cudaMemcpy to the device, then on
\* to the loop whatever they returned
Startup(faulty) ==
  /\ pc = "start"
  /\ \E ok \in Outcomes(faulty) :
       /\ d1' = IF ok THEN <<h1>> ELSE d1
       /\ d2' = IF ok THEN <<h2>> ELSE d2
       /\ fault' = Raise(ok, "startup")
  /\ pc' = "gate"
  /\ UNCHANGED <<frame, x1, x2, q1, q2, h1, h2, pending, phase, launches,
                 zeroNorm, faultAge>>

\* line 183: glfwWindowShouldClose(w) is true
WindowClose ==
  /\ pc = "gate"
  /\ pc' = "done"
  /\ UNCHANGED <<frame, x1, x2, q1, q2, h1, h2, d1, d2, pending, fault,
                 phase, launches, zeroNorm, faultAge>>

\* lines 183-188: the window is open, and the test of line 188 with its
\* first branch
Gate(bound) ==
  /\ pc = "gate"
  /\ frame < bound
  /\ faultAge < MaxFaultFrames
  /\ frame' = frame + 1
  /\ faultAge' = IF fault = "none" THEN faultAge ELSE faultAge + 1
  /\ launches' = 0
  /\ phase' = IF FLt(x1, ContactThreshold) THEN "APPROACHING" ELSE "MESHED"
  /\ IF Approaching(x1)
       THEN /\ x1' = StepLeft(x1)
            /\ x2' = StepRight(x2)
            /\ pc' = "copy1"
       ELSE /\ UNCHANGED <<x1, x2>>
            /\ pc' = "launch"
  /\ UNCHANGED <<q1, q2, h1, h2, d1, d2, pending, fault, zeroNorm>>

\* line 189: enforce_mesh<<<1,1>>>(d1,d2) is queued; the host goes on
Launch(faulty) ==
  /\ pc = "launch"
  /\ launches' = launches + 1
  /\ \E ok \in Outcomes(faulty) :
       /\ pending' = (ok /\ fault = "none")
       /\ fault' = Raise(ok, "frame")
  /\ pc' = "copy1"
  /\ UNCHANGED <<frame, x1, x2, q1, q2, h1, h2, d1, d2, phase, zeroNorm,
                 faultAge>>

\* the records r[1] and r[2] are behind d1 and d2
KernelDone(r) == d1' = <<r[1]>> /\ d2' = <<r[2]>>

\* the device runs the queued kernel on *d1 and *d2
KernelRun ==
  /\ pending
  /\ KernelDone(enforce_mesh(d1[1], d2[1]))
  /\ pending' = FALSE
  /\ UNCHANGED <<pc, frame, x1, x2, q1, q2, h1, h2, fault, phase, launches,
                 zeroNorm, faultAge>>

\* line 191: cudaMemcpy(&h1,d1,...) waits for the queued kernel, then copies
Copy1(faulty) ==
  /\ pc = "copy1"
  /\ ~pending
  /\ \E ok \in Outcomes(faulty) :
       /\ h1' = IF ok /\ fault = "none" THEN d1[1] ELSE h1
       /\ fault' = Raise(ok, "frame")
  /\ pc' = "copy2"
  /\ UNCHANGED <<frame, x1, x2, q1, q2, h2, d1, d2, pending, phase, launches,
                 zeroNorm, faultAge>>

\* line 192
Copy2(faulty) ==
  /\ pc = "copy2"
  /\ \E ok \in Outcomes(faulty) :
       /\ h2' = IF ok /\ fault = "none" THEN d2[1] ELSE h2
       /\ fault' = Raise(ok, "frame")
  /\ pc' = "integ1"
  /\ UNCHANGED <<frame, x1, x2, q1, q2, h1, d1, d2, pending, phase, launches,
                 zeroNorm, faultAge>>

\* integrate_quat has returned with memory mem: q1 is its q, and its n is
\* looked at
Integrated1(mem) ==
  /\ q1' = QuatOf(mem, "q")
  /\ zeroNorm' = (zeroNorm \/ IsZero(mem[Var("n")]))

Integrated2(mem) ==
  /\ q2' = QuatOf(mem, "q")
  /\ zeroNorm' = (zeroNorm \/ IsZero(mem[Var("n")]))

\* line 194
Integrate1 ==
  /\ pc = "integ1"
  /\ Integrated1(integrate_quat(q1, h1.omega, TimeStep))
  /\ pc' = "integ2"
  /\ UNCHANGED <<frame, x1, x2, q2, h1, h2, d1, d2, pending, fault, phase,
                 launches, faultAge>>

\* line 195
Integrate2 ==
  /\ pc = "integ2"
  /\ Integrated2(integrate_quat(q2, h2.omega, TimeStep))
  /\ pc' = "render"
  /\ UNCHANGED <<frame, x1, x2, q1, h1, h2, d1, d2, pending, fault, phase,
                 launches, faultAge>>

\* lines 197-239: drawing and the HUD read x1, x2, q1, q2, h1, h2 and write
\* none of them
Render ==
  /\ pc = "render"
  /\ pc' = "gate"
  /\ UNCHANGED <<frame, x1, x2, q1, q2, h1, h2, d1, d2, pending, fault,
                 phase, launches, zeroNorm, faultAge>>

Next ==
  \/ Startup(TRUE)
  \/ WindowClose
  \/ Gate(MaxFrames)
  \/ Launch(TRUE)
  \/ KernelRun
  \/ Copy1(TRUE)
  \/ Copy2(TRUE)
  \/ Integrate1
  \/ Integrate2
  \/ Render

\* the program, with CUDA calls that may fail
Spec == Init /\ [][Next]_vars

LongNext ==
  \/ Startup(FALSE)
  \/ WindowClose
  \/ Gate(MaxLongFrames)
  \/ Launch(FALSE)
  \/ KernelRun
  \/ Copy1(FALSE)
  \/ Copy2(FALSE)
  \/ Integrate1
  \/ Integrate2
  \/ Render

\* the program over many frames, every CUDA call succeeding
LongSpec == Init /\ [][LongNext]_vars

(***************************************************************************)
(* enforce_mesh on its own: applied again and again to a pair of records,  *)
(* nothing else running in between                                         *)
(***************************************************************************)

\* x components the records are drawn from
KernelX1 == {Dec(4, 10), Flt(7), NaN, NInf}
KernelX2 == {Dec(-3, 10), Flt(-7), PInf}
\* <<y, z>> components the records are drawn from
KernelYZ1 ==
  { <<Dec(9, 10), Dec(2, 10)>>, <<Flt(1), Flt(0)>>, <<Flt(7), Flt(-7)>>,
    <<PInf, Dec(2, 10)>>, <<NaN, Flt(5)>> }
KernelYZ2 ==
  { <<Dec(2, 10), Dec(8, 10)>>, <<Flt(-1), Flt(0)>>, <<Flt(-7), Flt(100)>>,
    <<Dec(9, 10), Dec(2, 10)>> }

KernelInit ==
  /\ pc = "harness"
  /\ frame = 0
  /\ x1 = Flt(-1)
  /\ x2 = Flt(1)
  /\ q1 = Quat(Flt(1), Flt(0), Flt(0), Flt(0))
  /\ q2 = Quat(Flt(1), Flt(0), Flt(0), Flt(0))
  /\ h1 = InitH1
  /\ h2 = InitH2
  /\ d1 \in {<<SphereGPU(x, yz[1], yz[2])>> : x \in KernelX1, yz \in KernelYZ1}
  /\ d2 \in {<<SphereGPU(x, yz[1], yz[2])>> : x \in KernelX2, yz \in KernelYZ2}
  /\ pending = FALSE
  /\ fault = "none"
  /\ phase = "MESHED"
  /\ launches = 0
  /\ zeroNorm = FALSE
  /\ faultAge = 0

\* one more enforce_mesh<<<1,1>>>(d1,d2), run to its end
KernelApply ==
  /\ pc = "harness"
  /\ frame < MaxIter
  /\ frame' = frame + 1
  /\ KernelDone(enforce_mesh(d1[1], d2[1]))
  /\ UNCHANGED <<pc, x1, x2, q1, q2, h1, h2, pending, fault, phase, launches,
                 zeroNorm, faultAge>>

KernelSpec == KernelInit /\ [][KernelApply]_vars

\* the kernel on arbitrary records, and the program
ClampSpec == (Init \/ KernelInit) /\ [][Next \/ KernelApply]_vars

(***************************************************************************)
(* The coupling step written as a function of the two records before the   *)
(* step, for comparison with the kernel                                    *)
(***************************************************************************)

Float3(x, y, z) == [x |-> x, y |-> y, z |-> z]

Cross(a, b) ==
  Float3(FSub(FMul(a.y, b.z), FMul(a.z, b.y)),
         FSub(FMul(a.z, b.x), FMul(a.x, b.z)),
         FSub(FMul(a.x, b.y), FMul(a.y, b.x)))

Minus(u, v) == Float3(FSub(u.x, v.x), FSub(u.y, v.y), FSub(u.z, v.z))

\* cross(omegaA, (1,0,0)) - cross(omegaB, (-1,0,0))
RelVel(a, b) ==
  Minus(Cross(a.omega, Float3(Flt(1), Flt(0), Flt(0))),
        Cross(b.omega, Float3(Flt(-1), Flt(0), Flt(0))))

\* clamp(0.995 * x, -5.0, 5.0)
DampClamp(x) == fminf(fmaxf(FMul(x, Dec(995, 1000)), FNeg(Flt(5))), Flt(5))

PureUpdate(a, b, vrel) ==
  << SphereGPU(DampClamp(a.omega.x),
               DampClamp(FSub(a.omega.y, FMul(vrel.y, Dec(5, 100)))),
               DampClamp(FSub(a.omega.z, FMul(vrel.z, Dec(5, 100))))),
     SphereGPU(DampClamp(b.omega.x),
               DampClamp(FAdd(b.omega.y, FMul(vrel.y, Dec(5, 100)))),
               DampClamp(FAdd(b.omega.z, FMul(vrel.z, Dec(5, 100))))) >>

\* (omegaA, omegaB) -> (omegaA', omegaB')
PureStep(a, b) == PureUpdate(a, b, RelVel(a, b))

\* |vrel.y| + |vrel.z|
Slip(a, b) == FAdd(FAbs(RelVel(a, b).y), FAbs(RelVel(a, b).z))

\* -5.0 <= v <= 5.0
InRange(v) == FLe(FNeg(Flt(5)), v) /\ FLe(v, Flt(5))

RecordInRange(r) ==
  InRange(r.omega.x) /\ InRange(r.omega.y) /\ InRange(r.omega.z)

RecordFinite(r) ==
  IsFinite(r.omega.x) /\ IsFinite(r.omega.y) /\ IsFinite(r.omega.z)

(***************************************************************************)
(* The properties checked                                                  *)
(***************************************************************************)

\* C1: after any application of enforce_mesh, whatever the records were,
\* every component of both records is in [-5, 5]; and in the program, at
\* every moment, every component of both host copies and of both device
\* copies is in [-5, 5].
C1_ClampInvariant ==
  /\ (pc = "harness" /\ frame >= 1)
       => RecordInRange(d1[1]) /\ RecordInRange(d2[1])
  /\ pc # "harness"
       => /\ RecordInRange(h1) /\ RecordInRange(h2)
          /\ \A i \in DOMAIN d1 : RecordInRange(d1[i])
          /\ \A i \in DOMAIN d2 : RecordInRange(d2[i])

\* the kernel has brought 7 down to 5 and -7 up to -5
C1_Witness ==
  /\ pc = "harness"
  /\ frame >= 1
  /\ d1[1].omega.x = Flt(5)
  /\ d2[1].omega.x = Flt(-5)

\* C2 as stated: frames 1..99 are APPROACHING frames without a kernel
\* launch, and frame 100 and every later frame is MESHED.
C2_Gate99 ==
  /\ frame \in 1..99 => phase = "APPROACHING" /\ launches = 0
  /\ frame >= 100 => phase = "MESHED"

\* C2, amended: frames 1..100 are APPROACHING frames without a kernel
\* launch, and frame 101 and every later frame is MESHED, with its one launch
\* once the host is past line 189.
C2_Gate100 ==
  /\ frame \in 1..100 => phase = "APPROACHING" /\ launches = 0
  /\ frame >= 101 => phase = "MESHED"
  /\ (frame >= 101 /\ pc # "launch") => launches = 1

\* frame 101 has launched the kernel
C2_Witness ==
  /\ frame = 101
  /\ phase = "MESHED"
  /\ launches = 1
  /\ pc = "copy1"

\* C3 as stated: for finite records with distinct tangential components,
\* an application of enforce_mesh leaves |vrel.y| + |vrel.z| strictly smaller
\* than it was.
C3_MonotoneConvergence ==
  [][(/\ pc = "harness"
      /\ RecordFinite(d1[1]) /\ RecordFinite(d2[1])
      /\ <<d1[1].omega.y, d1[1].omega.z>> # <<d2[1].omega.y, d2[1].omega.z>>)
       => FLt(Slip(d1'[1], d2'[1]), Slip(d1[1], d2[1]))]_vars

\* C4: an application of enforce_mesh leaves in each record's x component
\* clamp(0.995 * x, -5, 5) of that record's own x component before it,
\* whatever the other components of the two records are.
C4_DecoupledAxis ==
  [][pc = "harness"
       => /\ d1'[1].omega.x = DampClamp(d1[1].omega.x)
          /\ d2'[1].omega.x = DampClamp(d2[1].omega.x)]_vars

\* two applications have damped 0.4 and -0.3 twice
C4_Witness ==
  /\ pc = "harness"
  /\ frame = 2
  /\ d1[1].omega.x = DampClamp(DampClamp(Dec(4, 10)))
  /\ d2[1].omega.x = DampClamp(DampClamp(Dec(-3, 10)))

\* C5: once a frame has found x1 >= -1.01, every later frame is MESHED too,
\* and no step changes x1 or x2 any more.
C5_OneWay ==
  [][/\ phase = "MESHED" => phase' = "MESHED"
     /\ ~FLt(x1, ContactThreshold)
          => x1' = x1 /\ x2' = x2 /\ ~FLt(x1', ContactThreshold)]_vars

\* the fourth MESHED frame, the spheres where contact left them
C5_Witness ==
  /\ frame = 104
  /\ phase = "MESHED"
  /\ pc = "render"
  /\ ~FLt(x1, ContactThreshold)

\* C6 as stated: after a failing allocation or transfer at startup no frame
\* is begun, and after a failing launch or copy in a frame no orientation
\* is integrated.
C6_FaultsFatal ==
  /\ fault = "startup" => frame = 0
  /\ fault = "frame" => pc \notin {"integ2", "render"}

\* C7 as stated: when the orientations are integrated, each host copy is the
\* device copy.
C7_HostCopyIsDeviceCopy ==
  pc \in {"integ1", "integ2", "render"} => d1 = <<h1>> /\ d2 = <<h2>>

\* C8: an APPROACHING frame launches no kernel and a MESHED frame exactly
\* one, and no step of an APPROACHING frame changes a host or device copy of
\* the angular velocities.
C8_Gating ==
  /\ [](phase = "APPROACHING" => launches = 0 /\ ~pending)
  /\ []((phase = "MESHED" /\ pc # "launch") => launches = 1)
  /\ [][phase' = "APPROACHING" => UNCHANGED <<h1, h2, d1, d2>>]_vars

\* a MESHED frame whose one kernel has run and whose first copy is done
C8_Witness ==
  /\ frame = 102
  /\ phase = "MESHED"
  /\ pc = "copy2"
  /\ launches = 1
  /\ ~pending
  /\ h1 = d1[1]

\* C9: an application of enforce_mesh leaves in the two records what the
\* function of the records before the step gives.
C9_ConsistentSnapshot ==
  [][pc = "harness" => <<d1'[1], d2'[1]>> = PureStep(d1[1], d2[1])]_vars

\* the kernel has been applied to the program's initial records
C9_Witness ==
  /\ pc = "harness"
  /\ frame = 1
  /\ <<d1[1], d2[1]>> = PureStep(InitH1, InitH2)

\* C10 as stated: no quat_norm call computes a zero norm.
C10_NormNeverZero == ~zeroNorm
=============================================================================
